---- MODULE Spec2Model ----
(***************************************************************************)
(* Soltaro/Qendercore -> Hubitat bridge (src/pi/soltaro_sync.py).          *)
(*                                                                         *)
(* The daemon is one sequential process.  Every blocking network call is   *)
(* one step of the model: the step takes the reply of the remote side as   *)
(* its input and runs the code up to the next network call.                *)
(*                                                                         *)
(* Python values.  A string is a sequence of one-character strings.  An    *)
(* Optional[str] is such a sequence or None.  A snapshot value is a tagged *)
(* record (PyNone, PyInt, PyStr).                                          *)
(***************************************************************************)
EXTENDS Integers, Sequences, FiniteSets, TLC

VARIABLES
    cfg,        \* Config: poll_seconds, and whether the three hub settings are set
    state,      \* QenderClient.state, the in-memory SessionState
    stateFile,  \* the persisted state document (cfg.state_file)
    pc,         \* position of the daemon: the network call it is about to make
    cycle,      \* number of the current poll cycle
    token,      \* fetch_snapshot's token, the bearer credential of the cycle
    enchwt,     \* fetch_snapshot's enchwt
    data,       \* the snapshot of the cycle
    pushIdx,    \* push_to_hubitat: index of the next mapping entry of the loop
    calls,      \* requests sent to the auth and query endpoints in this cycle, with the reply's status
    hwvReply,   \* the reply to the hardware-version query of this cycle
    sent,       \* transport calls made by hubitat_cmd in this cycle
    err,        \* the exception raised in this cycle and where
    refreshed,  \* how refresh() ended in this cycle, and what it returned
    issued,     \* the rotating credential of the latest successful auth reply that carried one
    failures,   \* number of "poll error" lines printed so far
    sleptFor,   \* argument of the latest time.sleep
    call,       \* a helper function applied on its own: its name and argument
    returned    \* what that application returned

vars == <<cfg, state, stateFile, pc, cycle, token, enchwt, data, pushIdx,
          calls, hwvReply, sent, err, refreshed, issued, failures, sleptFor,
          call, returned>>

-----------------------------------------------------------------------------
(* Bounds of the model. *)

MaxCycles == 2

\* Sizes of the arguments the helper functions are applied to.
MaxCols == 2
MaxRows == 2
MaxPower == 2
MaxPairs == 2

-----------------------------------------------------------------------------
(* Python strings and None. *)

None == <<"None">>

Falsy(s) == s = None \/ s = <<>>

Concat(parts) ==
    LET RECURSIVE cat(_)
        cat(i) == IF i > Len(parts) THEN <<>> ELSE parts[i] \o cat(i + 1)
    IN  cat(1)

StartsWith(s, p) == Len(s) >= Len(p) /\ SubSeq(s, 1, Len(p)) = p

\* str.find: the first position of p in s, 0 when p does not occur.
Find(s, p) ==
    LET hits == {i \in 1..(Len(s) - Len(p) + 1) : SubSeq(s, i, i + Len(p) - 1) = p}
    IN  IF hits = {} THEN 0 ELSE CHOOSE i \in hits : \A j \in hits : i <= j

\* s.split(c, 1)[0]
SplitHead(s, c) ==
    IF Find(s, c) = 0 THEN s ELSE SubSeq(s, 1, Find(s, c) - 1)

\* s.split(c, 1)[1], for an s that holds c
SplitTail(s, c) == SubSeq(s, Find(s, c) + Len(c), Len(s))

\* s.split(c)
RECURSIVE Split(_, _)
Split(s, c) ==
    IF Find(s, c) = 0 THEN <<s>>
    ELSE <<SplitHead(s, c)>> \o Split(SplitTail(s, c), c)

\* s.strip()
RECURSIVE Strip(_)
Strip(s) ==
    IF s # <<>> /\ Head(s) = " " THEN Strip(Tail(s))
    ELSE IF s # <<>> /\ s[Len(s)] = " " THEN Strip(SubSeq(s, 1, Len(s) - 1))
    ELSE s

-----------------------------------------------------------------------------
(* QenderClient._extract_rtok *)

\* extract_part that does not cut the value at ";".
extract_part_keeps_attributes(p) ==
    IF StartsWith(p, <<"r", "t", "o", "k", "=">>)
    THEN SplitTail(p, <<"=">>)
    ELSE IF Find(p, <<" ", "r", "t", "o", "k", "=">>) # 0
    THEN LET idx == Find(p, <<" ", "r", "t", "o", "k", "=">>) + 1
         IN  SplitTail(SubSeq(p, idx, Len(p)), <<"=">>)
    ELSE None

extract_part(p) ==
    IF StartsWith(p, <<"r", "t", "o", "k", "=">>)
    THEN SplitTail(SplitHead(p, <<";">>), <<"=">>)
    ELSE IF Find(p, <<" ", "r", "t", "o", "k", "=">>) # 0
    THEN LET idx == Find(p, <<" ", "r", "t", "o", "k", "=">>) + 1
         IN  SplitTail(SplitHead(SubSeq(p, idx, Len(p)), <<";">>), <<"=">>)
    ELSE None

part_matches(p) ==
    \/ StartsWith(p, <<"r", "t", "o", "k", "=">>)
    \/ Find(p, <<" ", "r", "t", "o", "k", "=">>) # 0

\* _extract_rtok without the branch for a later pair.
_extract_rtok_first_pair_only(set_cookie) ==
    IF Falsy(set_cookie) THEN None
    ELSE LET parts == Split(set_cookie, <<",">>)
             RECURSIVE scan(_)
             scan(i) ==
                 IF i > Len(parts) THEN None
                 ELSE IF StartsWith(Strip(parts[i]), <<"r", "t", "o", "k", "=">>)
                      THEN extract_part(Strip(parts[i]))
                      ELSE scan(i + 1)
         IN  scan(1)

_extract_rtok(set_cookie) ==
    IF Falsy(set_cookie) THEN None
    ELSE LET parts == Split(set_cookie, <<",">>)
             RECURSIVE scan(_)
             scan(i) ==
                 IF i > Len(parts) THEN None
                 ELSE IF part_matches(Strip(parts[i]))
                      THEN extract_part(Strip(parts[i]))
                      ELSE scan(i + 1)
         IN  scan(1)

-----------------------------------------------------------------------------
(* Replies of the auth endpoints (login and refresh share one shape). *)

RtokX == <<"X">>
RtokY == <<"Y", "=">>
RtokValues == {RtokX, RtokY}

TokA == <<"a">>
TokB == <<"b">>
Tokens == {TokA, TokB}

RtokEq == <<"r", "t", "o", "k", "=">>
PathAttr == <<";", " ", "P", "a", "t", "h", "=", "/">>
OtherPair == <<"o", "t", "h", "e", "r", "=", "1", ",", " ">>
SidPair == <<"s", "i", "d", "=", "1">>

\* The Set-Cookie payloads a server reply carries: the credential as the
\* first pair, as a later pair after a comma, as a later pair after a
\* semicolon, an emptied pair, another cookie only.
SetCookieFirst(v) == Concat(<<RtokEq, v, PathAttr>>)
SetCookieLater(v) == Concat(<<OtherPair, RtokEq, v, PathAttr>>)
SetCookieAfterAttr(v) == Concat(<<SidPair, <<";", " ">>, RtokEq, v, PathAttr>>)
SetCookieCleared == Concat(<<RtokEq, PathAttr>>)
SetCookieOther == Concat(<<SidPair, PathAttr>>)

\* Header of a reply: the rotating credential the server issues (None when
\* it issues none), the payload that carries it and the header's spelling.
CookieChoices ==
    {[rtok |-> None, set_cookie |-> None, name |-> "Set-Cookie"],
     [rtok |-> None, set_cookie |-> SetCookieOther, name |-> "Set-Cookie"],
     [rtok |-> None, set_cookie |-> SetCookieCleared, name |-> "set-cookie"]}
    \cup {[rtok |-> v, set_cookie |-> SetCookieFirst(v), name |-> n] :
             v \in RtokValues, n \in {"Set-Cookie", "set-cookie"}}
    \cup {[rtok |-> v, set_cookie |-> SetCookieLater(v), name |-> "Set-Cookie"] :
             v \in RtokValues}
    \cup {[rtok |-> RtokX, set_cookie |-> SetCookieAfterAttr(RtokX), name |-> "set-cookie"]}

\* Body of a reply: not JSON, a JSON object without access_token, or a JSON
\* object with access_token (null, empty or a token).
AuthBodies ==
    {[body |-> "malformed", access_token |-> None],
     [body |-> "nokey", access_token |-> None]}
    \cup {[body |-> "ok", access_token |-> t] : t \in Tokens \cup {None, <<>>}}

AuthReplies ==
    {[transport |-> "error", status |-> 0, body |-> "malformed",
      access_token |-> None, cookie |-> CHOOSE c \in CookieChoices : c.set_cookie = None]}
    \cup {[transport |-> "ok", status |-> 401, body |-> "malformed",
           access_token |-> None, cookie |-> c] :
             c \in {k \in CookieChoices : k.rtok \in {None, RtokX} /\ k.name = "Set-Cookie"}}
    \cup {[transport |-> "ok", status |-> 200, body |-> b.body,
           access_token |-> b.access_token, cookie |-> c] :
             b \in AuthBodies, c \in CookieChoices}

\* dict(resp.headers.items()) of a reply
Headers(reply) ==
    [SetCookie |-> IF reply.cookie.name = "Set-Cookie" THEN reply.cookie.set_cookie ELSE None,
     setcookie |-> IF reply.cookie.name = "set-cookie" THEN reply.cookie.set_cookie ELSE None]

\* QenderClient._http: a reply with a status is returned whatever the
\* status (HTTPError is caught), any other failure of urlopen propagates.
_http(reply) ==
    IF reply.transport = "error"
    THEN [raised |-> "URLError", status |-> 0, hdrs |-> Headers(reply), text |-> reply]
    ELSE [raised |-> "none", status |-> reply.status, hdrs |-> Headers(reply), text |-> reply]

\* hdrs.get("Set-Cookie") or hdrs.get("set-cookie")
get_set_cookie(hdrs) ==
    IF ~Falsy(hdrs.SetCookie) THEN hdrs.SetCookie ELSE hdrs.setcookie

-----------------------------------------------------------------------------
(* SessionState and the persisted state document. *)

EmptyState == [isDict |-> TRUE, refresh_token |-> None]
NonDictState == [isDict |-> FALSE, refresh_token |-> None]

StateDocs ==
    {EmptyState, NonDictState}
    \cup {[isDict |-> TRUE, refresh_token |-> v] : v \in RtokValues \cup {<<>>}}

\* The conditions of the state file at startup: missing, not JSON, a JSON
\* value that is not an object, an object without, with an empty and with a
\* stored credential.
StateFiles ==
    {[exists |-> FALSE, parses |-> FALSE, doc |-> EmptyState],
     [exists |-> TRUE, parses |-> FALSE, doc |-> EmptyState]}
    \cup {[exists |-> TRUE, parses |-> TRUE, doc |-> d] :
             d \in {q \in StateDocs : q.refresh_token # RtokY}}

_load_state(file) ==
    IF file.exists
    THEN IF file.parses THEN file.doc ELSE EmptyState
    ELSE EmptyState

\* Outcomes of a write of the document: written, failed before the file
\* was opened, failed after the file was truncated.
SaveOutcomes == {"ok", "failed", "truncated"}

\* _save_state that leaves the document as it was.
_save_state_skips_write(st, file, outcome) ==
    [raised |-> "none", file |-> file]

_save_state(st, file, outcome) ==
    CASE outcome = "ok" ->
           [raised |-> "none", file |-> [exists |-> TRUE, parses |-> TRUE, doc |-> st]]
      [] outcome = "failed" ->
           [raised |-> "OSError", file |-> file]
      [] outcome = "truncated" ->
           [raised |-> "OSError", file |-> [exists |-> TRUE, parses |-> FALSE, doc |-> EmptyState]]

-----------------------------------------------------------------------------
(* QenderClient.login, QenderClient.refresh, QenderClient.access_token *)

\* login that stores the bearer credential in SessionState.
login_persists_bearer(st, file, reply, outcome) ==
    LET h == _http(reply)
        rtok == _extract_rtok(get_set_cookie(h.hdrs))
        st2 == [st EXCEPT !.refresh_token = h.text.access_token]
        sv == _save_state(st2, file, outcome)
    IN  IF h.raised # "none"
        THEN [raised |-> h.raised, ret |-> None, state |-> st, file |-> file, called |-> TRUE]
        ELSE IF h.status # 200
        THEN [raised |-> "RuntimeError", ret |-> None, state |-> st, file |-> file, called |-> TRUE]
        ELSE IF h.text.body = "malformed"
        THEN [raised |-> "JSONDecodeError", ret |-> None, state |-> st, file |-> file, called |-> TRUE]
        ELSE IF h.text.body = "nokey"
        THEN [raised |-> "KeyError", ret |-> None, state |-> st, file |-> file, called |-> TRUE]
        ELSE IF Falsy(rtok)
        THEN [raised |-> "none", ret |-> h.text.access_token, state |-> st, file |-> file, called |-> TRUE]
        ELSE IF ~st.isDict
        THEN [raised |-> "TypeError", ret |-> None, state |-> st, file |-> file, called |-> TRUE]
        ELSE IF sv.raised # "none"
        THEN [raised |-> sv.raised, ret |-> None, state |-> st2, file |-> sv.file, called |-> TRUE]
        ELSE [raised |-> "none", ret |-> h.text.access_token, state |-> st2, file |-> sv.file, called |-> TRUE]

\* The result of a method: the exception it raised ("none" when it
\* returned), its return value, SessionState and the document after it, and
\* whether it made its network call.
login(st, file, reply, outcome) ==
    LET h == _http(reply)
        rtok == _extract_rtok(get_set_cookie(h.hdrs))
        st2 == [st EXCEPT !.refresh_token = rtok]
        sv == _save_state(st2, file, outcome)
    IN  IF h.raised # "none"
        THEN [raised |-> h.raised, ret |-> None, state |-> st, file |-> file, called |-> TRUE]
        ELSE IF h.status # 200
        THEN [raised |-> "RuntimeError", ret |-> None, state |-> st, file |-> file, called |-> TRUE]
        ELSE IF h.text.body = "malformed"
        THEN [raised |-> "JSONDecodeError", ret |-> None, state |-> st, file |-> file, called |-> TRUE]
        ELSE IF h.text.body = "nokey"
        THEN [raised |-> "KeyError", ret |-> None, state |-> st, file |-> file, called |-> TRUE]
        ELSE IF Falsy(rtok)
        THEN [raised |-> "none", ret |-> h.text.access_token, state |-> st, file |-> file, called |-> TRUE]
        ELSE IF ~st.isDict
        THEN [raised |-> "TypeError", ret |-> None, state |-> st, file |-> file, called |-> TRUE]
        ELSE IF sv.raised # "none"
        THEN [raised |-> sv.raised, ret |-> None, state |-> st2, file |-> sv.file, called |-> TRUE]
        ELSE [raised |-> "none", ret |-> h.text.access_token, state |-> st2, file |-> sv.file, called |-> TRUE]

\* refresh that forgets a credential the endpoint has rejected.
refresh_clears_rejected(st, file, reply, outcome) ==
    LET h == _http(reply)
        new_rtok == _extract_rtok(get_set_cookie(h.hdrs))
        st2 == [st EXCEPT !.refresh_token = new_rtok]
        sv == _save_state(st2, file, outcome)
    IN  IF ~st.isDict
        THEN [raised |-> "AttributeError", ret |-> None, state |-> st, file |-> file, called |-> FALSE]
        ELSE IF Falsy(st.refresh_token)
        THEN [raised |-> "none", ret |-> None, state |-> st, file |-> file, called |-> FALSE]
        ELSE IF h.raised # "none"
        THEN [raised |-> h.raised, ret |-> None, state |-> st, file |-> file, called |-> TRUE]
        ELSE IF h.status # 200
        THEN [raised |-> "none", ret |-> None, state |-> EmptyState,
              file |-> _save_state(EmptyState, file, "ok").file, called |-> TRUE]
        ELSE IF h.text.body = "malformed"
        THEN [raised |-> "JSONDecodeError", ret |-> None, state |-> st, file |-> file, called |-> TRUE]
        ELSE IF h.text.body = "nokey"
        THEN [raised |-> "KeyError", ret |-> None, state |-> st, file |-> file, called |-> TRUE]
        ELSE IF Falsy(new_rtok)
        THEN [raised |-> "none", ret |-> h.text.access_token, state |-> st, file |-> file, called |-> TRUE]
        ELSE IF sv.raised # "none"
        THEN [raised |-> sv.raised, ret |-> None, state |-> st2, file |-> sv.file, called |-> TRUE]
        ELSE [raised |-> "none", ret |-> h.text.access_token, state |-> st2, file |-> sv.file, called |-> TRUE]

\* refresh that overwrites SessionState and does not write the document.
refresh_forgets_save(st, file, reply, outcome) ==
    LET h == _http(reply)
        new_rtok == _extract_rtok(get_set_cookie(h.hdrs))
        st2 == [st EXCEPT !.refresh_token = new_rtok]
        sv == [raised |-> "none", file |-> file]
    IN  IF ~st.isDict
        THEN [raised |-> "AttributeError", ret |-> None, state |-> st, file |-> file, called |-> FALSE]
        ELSE IF Falsy(st.refresh_token)
        THEN [raised |-> "none", ret |-> None, state |-> st, file |-> file, called |-> FALSE]
        ELSE IF h.raised # "none"
        THEN [raised |-> h.raised, ret |-> None, state |-> st, file |-> file, called |-> TRUE]
        ELSE IF h.status # 200
        THEN [raised |-> "none", ret |-> None, state |-> st, file |-> file, called |-> TRUE]
        ELSE IF h.text.body = "malformed"
        THEN [raised |-> "JSONDecodeError", ret |-> None, state |-> st, file |-> file, called |-> TRUE]
        ELSE IF h.text.body = "nokey"
        THEN [raised |-> "KeyError", ret |-> None, state |-> st, file |-> file, called |-> TRUE]
        ELSE IF Falsy(new_rtok)
        THEN [raised |-> "none", ret |-> h.text.access_token, state |-> st, file |-> file, called |-> TRUE]
        ELSE IF sv.raised # "none"
        THEN [raised |-> sv.raised, ret |-> None, state |-> st2, file |-> sv.file, called |-> TRUE]
        ELSE [raised |-> "none", ret |-> h.text.access_token, state |-> st2, file |-> sv.file, called |-> TRUE]

refresh(st, file, reply, outcome) ==
    LET h == _http(reply)
        new_rtok == _extract_rtok(get_set_cookie(h.hdrs))
        st2 == [st EXCEPT !.refresh_token = new_rtok]
        sv == _save_state(st2, file, outcome)
    IN  IF ~st.isDict
        THEN [raised |-> "AttributeError", ret |-> None, state |-> st, file |-> file, called |-> FALSE]
        ELSE IF Falsy(st.refresh_token)
        THEN [raised |-> "none", ret |-> None, state |-> st, file |-> file, called |-> FALSE]
        ELSE IF h.raised # "none"
        THEN [raised |-> h.raised, ret |-> None, state |-> st, file |-> file, called |-> TRUE]
        ELSE IF h.status # 200
        THEN [raised |-> "none", ret |-> None, state |-> st, file |-> file, called |-> TRUE]
        ELSE IF h.text.body = "malformed"
        THEN [raised |-> "JSONDecodeError", ret |-> None, state |-> st, file |-> file, called |-> TRUE]
        ELSE IF h.text.body = "nokey"
        THEN [raised |-> "KeyError", ret |-> None, state |-> st, file |-> file, called |-> TRUE]
        ELSE IF Falsy(new_rtok)
        THEN [raised |-> "none", ret |-> h.text.access_token, state |-> st, file |-> file, called |-> TRUE]
        ELSE IF sv.raised # "none"
        THEN [raised |-> sv.raised, ret |-> None, state |-> st2, file |-> sv.file, called |-> TRUE]
        ELSE [raised |-> "none", ret |-> h.text.access_token, state |-> st2, file |-> sv.file, called |-> TRUE]

\* access_token that always logs in.
access_token_always_login(ret) == "login"

\* access_token: "self.refresh() or self.login()"; where control goes once
\* refresh has returned ret.
access_token(ret) == IF Falsy(ret) THEN "login" ELSE "hwv"

-----------------------------------------------------------------------------
(* Snapshot values, cols_rows_to_dict, battery_state_from_power *)

PyNone == [t |-> "none", n |-> 0, s |-> ""]
PyInt(n) == [t |-> "int", n |-> n, s |-> ""]
PyStr(s) == [t |-> "str", n |-> 0, s |-> s]

PyFalsy(v) == v = PyNone \/ v = PyInt(0) \/ v = PyStr("")

K_SOLAR == "inv.core.solar_prod_pwr_w"
K_CONS == "inv.core.consumption_pwr_w"
K_METER == "inv.core.meter_pwr_w"
K_BATT == "inv.core.battery_pwr_w"
K_SOC == "inv.core.batt_soc_perc"

\* The snapshot with no key.
EmptySnapshot == [k \in {} |-> PyNone]

\* data.get(key)
Get(d, key) == IF key \in DOMAIN d THEN d[key] ELSE PyNone

\* col.get("id", f"col{i}") for the i-th column, i counted from 0
col_id(col, i) ==
    IF col.has_id THEN col.id
    ELSE <<"col0", "col1", "col2", "col3", "col4", "col5", "col6", "col7">>[i + 1]

\* cols_rows_to_dict reading the last row instead of the first.
cols_rows_to_dict_last_row(payload) ==
    LET cols == IF payload.has_cols THEN payload.cols ELSE <<>>
        rows == IF payload.has_rows THEN payload.rows ELSE <<>>
        row == rows[Len(rows)]
        ids == {col_id(cols[i], i - 1) : i \in 1..Len(cols)}
        last(k) == CHOOSE i \in 1..Len(cols) :
                      /\ col_id(cols[i], i - 1) = k
                      /\ \A j \in 1..Len(cols) : col_id(cols[j], j - 1) = k => j <= i
    IN  IF cols = <<>> \/ rows = <<>> THEN EmptySnapshot
        ELSE [k \in ids |-> IF last(k) <= Len(row) THEN row[last(k)] ELSE PyNone]

cols_rows_to_dict(payload) ==
    LET cols == IF payload.has_cols THEN payload.cols ELSE <<>>
        rows == IF payload.has_rows THEN payload.rows ELSE <<>>
        row == rows[1]
        ids == {col_id(cols[i], i - 1) : i \in 1..Len(cols)}
        last(k) == CHOOSE i \in 1..Len(cols) :
                      /\ col_id(cols[i], i - 1) = k
                      /\ \A j \in 1..Len(cols) : col_id(cols[j], j - 1) = k => j <= i
    IN  IF cols = <<>> \/ rows = <<>> THEN EmptySnapshot
        ELSE [k \in ids |-> IF last(k) <= Len(row) THEN row[last(k)] ELSE PyNone]

\* battery_state_from_power with a dead band of one watt around zero.
battery_state_from_power_dead_band(power_w) ==
    IF power_w = PyNone THEN "unknown"
    ELSE IF power_w.n > 1 THEN "charging"
    ELSE IF power_w.n < 0 - 1 THEN "discharging"
    ELSE "idle"

battery_state_from_power(power_w) ==
    IF power_w = PyNone THEN "unknown"
    ELSE IF power_w.n > 0 THEN "charging"
    ELSE IF power_w.n < 0 THEN "discharging"
    ELSE "idle"

-----------------------------------------------------------------------------
(* QenderClient.ds and the two queries of fetch_snapshot *)

H1 == <<"h", "1">>
H2 == <<"h", "2">>

\* Replies to the hardware-version query: the rows of the JSON object.
HwvPayloads ==
    {[has_rows |-> FALSE, rows |-> <<>>],
     [has_rows |-> TRUE, rows |-> <<>>],
     [has_rows |-> TRUE, rows |-> << <<>> >>],
     [has_rows |-> TRUE, rows |-> << <<None>> >>],
     [has_rows |-> TRUE, rows |-> << << <<>> >> >>],
     [has_rows |-> TRUE, rows |-> << <<H1>> >>],
     [has_rows |-> TRUE, rows |-> << <<H2, H1>>, <<H1>> >>]}

Col(id) == [has_id |-> TRUE, id |-> id]
NoIdCol == [has_id |-> FALSE, id |-> ""]

PropCols == <<Col(K_SOLAR), Col(K_CONS), Col(K_METER), Col(K_BATT), Col(K_SOC)>>

\* Replies to the realtime query: columns and rows of the JSON object.
RealtimePayloads ==
    {[has_cols |-> TRUE, cols |-> PropCols, has_rows |-> TRUE,
      rows |-> << <<PyInt(10), PyInt(20), PyInt(1), b, PyInt(50)>> >>] :
         b \in {PyInt(-3), PyInt(0), PyInt(4), PyNone}}
    \cup
    {[has_cols |-> TRUE, cols |-> PropCols, has_rows |-> TRUE,
      rows |-> << <<PyNone, PyInt(0), PyInt(-2)>>, <<PyInt(9), PyInt(9), PyInt(9), PyInt(9), PyInt(9)>> >>],
     [has_cols |-> TRUE, has_rows |-> TRUE,
      cols |-> <<Col(K_SOC), Col(K_SOLAR), Col(K_CONS), Col(K_METER)>>,
      rows |-> << <<PyInt(0), PyInt(10), PyInt(20), PyInt(1)>> >>],
     [has_cols |-> TRUE, has_rows |-> TRUE,
      cols |-> <<Col("ts"), NoIdCol, Col(K_BATT), Col(K_BATT)>>,
      rows |-> << <<PyStr("T1"), PyInt(5), PyInt(4), PyInt(-3)>> >>],
     [has_cols |-> TRUE, has_rows |-> TRUE,
      cols |-> <<Col("ts"), Col(K_SOC)>>,
      rows |-> << <<PyStr(""), PyInt(50)>> >>],
     [has_cols |-> TRUE, cols |-> PropCols, has_rows |-> TRUE, rows |-> <<>>],
     [has_cols |-> TRUE, cols |-> <<>>, has_rows |-> TRUE,
      rows |-> << <<PyInt(10)>> >>],
     [has_cols |-> FALSE, cols |-> <<>>, has_rows |-> FALSE, rows |-> <<>>]}

\* An error document: a JSON object with neither columns nor rows.
HwvErrorDoc == [has_rows |-> FALSE, rows |-> <<>>]
RealtimeErrorDoc == [has_cols |-> FALSE, cols |-> <<>>, has_rows |-> FALSE, rows |-> <<>>]

\* A reply of the query endpoint: transport outcome, status, whether the
\* body is JSON and a JSON object, and the object.
DsReplies(payloads, errdoc) ==
    {[transport |-> "error", status |-> 0, json |-> "malformed", payload |-> errdoc]}
    \cup {[transport |-> "ok", status |-> 500, json |-> j, payload |-> errdoc] :
        j \in {"malformed", "dict"}}
    \cup {[transport |-> "ok", status |-> 200, json |-> j, payload |-> errdoc] :
        j \in {"malformed", "nondict"}}
    \cup {[transport |-> "ok", status |-> 200, json |-> "dict", payload |-> p] :
        p \in payloads}

\* ds without the test of the status.
ds_ignores_status(reply) ==
    IF reply.transport = "error"
    THEN [raised |-> "URLError", json |-> reply.json, payload |-> reply.payload]
    ELSE IF reply.json = "malformed"
    THEN [raised |-> "JSONDecodeError", json |-> reply.json, payload |-> reply.payload]
    ELSE [raised |-> "none", json |-> reply.json, payload |-> reply.payload]

\* QenderClient.ds: the exception raised ("none" when it returned) and the
\* parsed body.
ds(reply) ==
    LET h == _http([transport |-> reply.transport, status |-> reply.status,
                    cookie |-> CHOOSE c \in CookieChoices : c.set_cookie = None])
    IN  IF h.raised # "none" THEN [raised |-> h.raised, json |-> reply.json, payload |-> reply.payload]
        ELSE IF h.status # 200 THEN [raised |-> "RuntimeError", json |-> reply.json, payload |-> reply.payload]
        ELSE IF reply.json = "malformed" THEN [raised |-> "JSONDecodeError", json |-> reply.json, payload |-> reply.payload]
        ELSE [raised |-> "none", json |-> reply.json, payload |-> reply.payload]

\* The handle read from the last value of the row.
hwv_enchwt_last_value(hwv) ==
    LET hwv_row == IF hwv.has_rows /\ hwv.rows # <<>> THEN hwv.rows[1] ELSE <<None>>
    IN  IF hwv_row # <<>> THEN hwv_row[Len(hwv_row)] ELSE None

\* fetch_snapshot, from the return of the hardware-version query to the
\* realtime query: the handle read from the reply.
hwv_enchwt(hwv) ==
    LET hwv_row == IF hwv.has_rows /\ hwv.rows # <<>> THEN hwv.rows[1] ELSE <<None>>
    IN  IF hwv_row # <<>> THEN hwv_row[1] ELSE None

-----------------------------------------------------------------------------
(* hubitat_cmd and push_to_hubitat *)

WallClock == "now"

\* The timestamp taken from the snapshot alone.
last_timestamp_snapshot_only(d) == Get(d, "ts")

\* data.get("ts") or datetime.now().isoformat(timespec="seconds")
last_timestamp(d) ==
    IF PyFalsy(Get(d, "ts")) THEN PyStr(WallClock) ELSE Get(d, "ts")

\* The mapping with setBatteryState and setSolarPower exchanged.
mapping_reordered(d) ==
    <<[cmd |-> "setBatterySoc", val |-> Get(d, K_SOC)],
      [cmd |-> "setBatteryPower", val |-> Get(d, K_BATT)],
      [cmd |-> "setSolarPower", val |-> Get(d, K_SOLAR)],
      [cmd |-> "setBatteryState", val |-> PyStr(battery_state_from_power(Get(d, K_BATT)))],
      [cmd |-> "setConsumptionPower", val |-> Get(d, K_CONS)],
      [cmd |-> "setGridPower", val |-> Get(d, K_METER)],
      [cmd |-> "setLastTimestamp", val |-> last_timestamp(d)]>>

\* The mapping of push_to_hubitat, in the order of the dict literal.
mapping(d) ==
    <<[cmd |-> "setBatterySoc", val |-> Get(d, K_SOC)],
      [cmd |-> "setBatteryPower", val |-> Get(d, K_BATT)],
      [cmd |-> "setBatteryState", val |-> PyStr(battery_state_from_power(Get(d, K_BATT)))],
      [cmd |-> "setSolarPower", val |-> Get(d, K_SOLAR)],
      [cmd |-> "setConsumptionPower", val |-> Get(d, K_CONS)],
      [cmd |-> "setGridPower", val |-> Get(d, K_METER)],
      [cmd |-> "setLastTimestamp", val |-> last_timestamp(d)]>>

\* A loop that skips nothing.
skipped_never(val) == FALSE

\* "if val is None: continue"
skipped(val) == val = PyNone

\* The loop of push_to_hubitat: the first entry at or after i that is not
\* skipped, Len(m) + 1 when the loop is over.
next_entry(m, i) ==
    LET rest == {j \in i..Len(m) : ~skipped(m[j].val)}
    IN  IF rest = {} THEN Len(m) + 1 ELSE CHOOSE j \in rest : \A k \in rest : j <= k

\* hubitat_cmd that swallows the failure of its transport call.
hubitat_cmd_swallows(c, command, arg, ok) ==
    IF ~c.hubitat THEN [raised |-> "RuntimeError", called |-> FALSE]
    ELSE [raised |-> "none", called |-> TRUE]

\* hubitat_cmd: raises before any transport call when a hub setting is
\* missing, and when the transport call fails.
hubitat_cmd(c, command, arg, ok) ==
    IF ~c.hubitat THEN [raised |-> "RuntimeError", called |-> FALSE]
    ELSE IF ~ok THEN [raised |-> "URLError", called |-> TRUE]
    ELSE [raised |-> "none", called |-> TRUE]

-----------------------------------------------------------------------------
(* command_daemon *)

\* int(env.get("SOLTARO_POLL_SECONDS", "300"))
DefaultPollSeconds == 300

NoErr == [at |-> "none", exc |-> "none"]
NotRefreshed == [outcome |-> "none", ret |-> None]
\* No helper function is applied on its own while the daemon runs.
NoCall == [fn |-> "none",
           payload |-> [has_cols |-> FALSE, cols |-> <<>>, has_rows |-> FALSE, rows |-> <<>>],
           power_w |-> PyNone, cookies |-> <<>>, set_cookie |-> None]
NoReturn == [done |-> FALSE, out |-> EmptySnapshot, battery_state |-> "", rtok |-> None]
NoReply == [transport |-> "none", status |-> 0, json |-> "malformed",
            payload |-> [has_rows |-> FALSE, rows |-> <<>>]]

\* "except RuntimeError"
command_daemon_catches_runtime_only(exc) == exc = "RuntimeError"

\* "except Exception": every exception of the pipeline is an Exception.
command_daemon_catches(exc) == TRUE

\* time.sleep(client.cfg.poll_seconds)
sleep_seconds(c, failed) == c.poll_seconds

\* An exception makes the failed call be tried again at once.
Raise_retries(at, exc) ==
    /\ err' = err
    /\ pc' = at
    /\ failures' = failures

\* An exception leaves command_poll_once: it is printed and the loop goes on
\* to sleep, or it leaves the loop.
Raise(at, exc) ==
    /\ err' = [at |-> at, exc |-> exc]
    /\ IF command_daemon_catches(exc)
       THEN pc' = "sleep" /\ failures' = failures + 1
       ELSE pc' = "exit" /\ failures' = failures

Init ==
    /\ cfg \in [poll_seconds : {DefaultPollSeconds}, hubitat : BOOLEAN]
    /\ stateFile \in StateFiles
    /\ state = _load_state(stateFile)
    /\ pc = "refresh"
    /\ cycle = 1
    /\ token = None
    /\ enchwt = None
    /\ data = EmptySnapshot
    /\ pushIdx = 1
    /\ calls = <<>>
    /\ hwvReply = NoReply
    /\ sent = <<>>
    /\ err = NoErr
    /\ refreshed = NotRefreshed
    /\ issued = None
    /\ failures = 0
    /\ sleptFor = 0
    /\ call = NoCall
    /\ returned = NoReturn

\* The reply is a success that carries a rotating credential.
Issues(reply) ==
    /\ reply.transport = "ok" /\ reply.status = 200 /\ reply.body = "ok"
    /\ reply.cookie.rtok # None

\* The bearer credential a reply of an auth endpoint carries, None when the
\* reply is not a success with a JSON object holding access_token.
Bearer(reply) ==
    IF reply.transport = "ok" /\ reply.status = 200 /\ reply.body = "ok"
    THEN reply.access_token
    ELSE None

\* The rotating credential a reply of an auth endpoint issues, None when it
\* issues none.
Rotated(reply) == IF Issues(reply) THEN reply.cookie.rtok ELSE None

\* command_poll_once -> fetch_snapshot -> access_token -> refresh
AccessTokenRefresh ==
    /\ pc = "refresh"
    /\ \E reply \in AuthReplies, outcome \in SaveOutcomes :
         LET r == refresh(state, stateFile, reply, outcome)
         IN  /\ state' = r.state
             /\ stateFile' = r.file
             /\ calls' = IF r.called
                         THEN Append(calls, [ep |-> "refresh", auth |-> state.refresh_token, arg |-> None,
                                             transport |-> reply.transport, status |-> reply.status,
                                             bearer |-> Bearer(reply), rtok |-> Rotated(reply)])
                         ELSE calls
             /\ issued' = IF r.called /\ Issues(reply) THEN reply.cookie.rtok ELSE issued
             /\ refreshed' =
                  [outcome |-> IF r.raised # "none" THEN "raised"
                               ELSE IF ~r.called THEN "skipped"
                               ELSE IF reply.status # 200 THEN "rejected"
                               ELSE "ok",
                   ret |-> r.ret]
             /\ IF r.raised # "none"
                THEN Raise("refresh", r.raised) /\ token' = token
                ELSE /\ pc' = access_token(r.ret)
                     /\ token' = IF access_token(r.ret) = "login" THEN token ELSE r.ret
                     /\ UNCHANGED <<err, failures>>
    /\ UNCHANGED <<cfg, cycle, enchwt, data, pushIdx, hwvReply, sent, sleptFor>>
    /\ UNCHANGED <<call, returned>>

\* access_token -> login
AccessTokenLogin ==
    /\ pc = "login"
    /\ \E reply \in AuthReplies, outcome \in SaveOutcomes :
         LET r == login(state, stateFile, reply, outcome)
         IN  /\ state' = r.state
             /\ stateFile' = r.file
             /\ calls' = Append(calls, [ep |-> "login", auth |-> None, arg |-> None,
                                      transport |-> reply.transport, status |-> reply.status,
                                      bearer |-> Bearer(reply), rtok |-> Rotated(reply)])
             /\ issued' = IF Issues(reply) THEN reply.cookie.rtok ELSE issued
             /\ IF r.raised # "none"
                THEN Raise("login", r.raised) /\ token' = token
                ELSE /\ pc' = "hwv"
                     /\ token' = r.ret
                     /\ UNCHANGED <<err, failures>>
    /\ UNCHANGED <<cfg, cycle, enchwt, data, pushIdx, hwvReply, sent, refreshed, sleptFor>>
    /\ UNCHANGED <<call, returned>>

\* fetch_snapshot: the hardware-version query and the test of the handle
FetchHwv ==
    /\ pc = "hwv"
    /\ \E reply \in DsReplies(HwvPayloads, HwvErrorDoc) :
         LET r == ds(reply)
             h == hwv_enchwt(r.payload)
         IN  /\ calls' = Append(calls, [ep |-> "hwv", auth |-> token, arg |-> None,
                                      transport |-> reply.transport, status |-> reply.status,
                                      bearer |-> None, rtok |-> None])
             /\ hwvReply' = reply
             /\ IF r.raised # "none"
                THEN Raise("hwv", r.raised) /\ enchwt' = enchwt
                ELSE IF r.json = "nondict"
                THEN Raise("hwv", "AttributeError") /\ enchwt' = enchwt
                ELSE IF Falsy(h)
                THEN Raise("hwv", "RuntimeError") /\ enchwt' = h
                ELSE /\ pc' = "hwm"
                     /\ enchwt' = h
                     /\ UNCHANGED <<err, failures>>
    /\ UNCHANGED <<cfg, state, stateFile, cycle, token, data, pushIdx, sent,
                   refreshed, issued, sleptFor>>
    /\ UNCHANGED <<call, returned>>

\* fetch_snapshot: the realtime query, cols_rows_to_dict, and the start of
\* push_to_hubitat (command_daemon calls command_poll_once with no_push
\* False)
FetchRealtime ==
    /\ pc = "hwm"
    /\ \E reply \in DsReplies(RealtimePayloads, RealtimeErrorDoc) :
         LET r == ds(reply)
             d == cols_rows_to_dict(r.payload)
         IN  /\ calls' = Append(calls, [ep |-> "hwm", auth |-> token, arg |-> enchwt,
                                      transport |-> reply.transport, status |-> reply.status,
                                      bearer |-> None, rtok |-> None])
             /\ IF r.raised # "none"
                THEN Raise("hwm", r.raised) /\ UNCHANGED <<data, pushIdx>>
                ELSE IF r.json = "nondict"
                THEN Raise("hwm", "AttributeError") /\ UNCHANGED <<data, pushIdx>>
                ELSE /\ data' = d
                     /\ pushIdx' = next_entry(mapping(d), 1)
                     /\ pc' = IF next_entry(mapping(d), 1) > Len(mapping(d)) THEN "sleep" ELSE "push"
                     /\ UNCHANGED <<err, failures>>
    /\ UNCHANGED <<cfg, state, stateFile, cycle, token, enchwt, hwvReply, sent,
                   refreshed, issued, sleptFor>>
    /\ UNCHANGED <<call, returned>>

\* push_to_hubitat: one turn of the loop that reaches hubitat_cmd, and the
\* skipped entries after it
PushToHubitat ==
    /\ pc = "push"
    /\ \E ok \in BOOLEAN :
         LET m == mapping(data)
             e == m[pushIdx]
             r == hubitat_cmd(cfg, e.cmd, e.val, ok)
         IN  /\ sent' = IF r.called
                        THEN Append(sent, [cmd |-> e.cmd, arg |-> e.val, ok |-> ok])
                        ELSE sent
             /\ IF r.raised # "none"
                THEN Raise("push", r.raised) /\ pushIdx' = pushIdx
                ELSE /\ pushIdx' = next_entry(m, pushIdx + 1)
                     /\ pc' = IF next_entry(m, pushIdx + 1) > Len(m) THEN "sleep" ELSE "push"
                     /\ UNCHANGED <<err, failures>>
    /\ UNCHANGED <<cfg, state, stateFile, cycle, token, enchwt, data, calls,
                   hwvReply, refreshed, issued, sleptFor>>
    /\ UNCHANGED <<call, returned>>

\* command_daemon: time.sleep, then the next turn of "while True"
Sleep ==
    /\ pc = "sleep"
    /\ cycle < MaxCycles
    /\ sleptFor' = sleep_seconds(cfg, err # NoErr)
    /\ cycle' = cycle + 1
    /\ pc' = "refresh"
    /\ token' = None
    /\ enchwt' = None
    /\ data' = EmptySnapshot
    /\ pushIdx' = 1
    /\ calls' = <<>>
    /\ hwvReply' = NoReply
    /\ sent' = <<>>
    /\ err' = NoErr
    /\ refreshed' = NotRefreshed
    /\ UNCHANGED <<cfg, state, stateFile, issued, failures>>
    /\ UNCHANGED <<call, returned>>

Next ==
    \/ AccessTokenRefresh
    \/ AccessTokenLogin
    \/ FetchHwv
    \/ FetchRealtime
    \/ PushToHubitat
    \/ Sleep

Spec == Init /\ [][Next]_vars

TypeOK ==
    /\ pc \in {"refresh", "login", "hwv", "hwm", "push", "sleep", "exit"}
    /\ cycle \in 1..MaxCycles
    /\ state \in StateDocs
    /\ failures \in 0..cycle

-----------------------------------------------------------------------------
(* The helper functions applied on their own.  The argument is drawn at    *)
(* the start; one step applies the function and keeps what it returned.    *)

SeqsUpTo(S, n) == UNION {[1..k -> S] : k \in 0..n}

\* Arguments of cols_rows_to_dict.  Column ids are distinct; a column may
\* carry no id.  A row may be shorter or longer than cols.
ColIds == {"a", "b"}
ColSeqs ==
    {cols \in SeqsUpTo({Col(id) : id \in ColIds} \cup {NoIdCol}, MaxCols) :
        \A i, j \in 1..Len(cols) :
            (i < j /\ cols[i].has_id /\ cols[j].has_id) => cols[i].id # cols[j].id}
CellValues == {PyInt(1), PyInt(2), PyNone}
FirstRows == SeqsUpTo(CellValues, MaxCols + 1)
LaterRows == {<<PyInt(2), PyInt(1), PyInt(1)>>, <<>>}
RowSeqs ==
    {<<>>} \cup {<<first>> \o later : first \in FirstRows,
                                      later \in SeqsUpTo(LaterRows, MaxRows - 1)}
Payloads ==
    {[has_cols |-> hc, cols |-> cols, has_rows |-> hr, rows |-> rows] :
        hc \in BOOLEAN, hr \in BOOLEAN, cols \in ColSeqs, rows \in RowSeqs}

\* Arguments of battery_state_from_power: a number of watts or None.
Powers == {PyNone} \cup {PyInt(n) : n \in (0 - MaxPower)..MaxPower}

\* Arguments of _extract_rtok: a header built from cookie pairs, each with
\* or without a Path attribute, the pairs joined by "," ", " or "; ".
PairNames == {<<"r", "t", "o", "k">>, <<"x", "r", "t", "o", "k">>}
PairValues == {RtokX, RtokY, <<>>}
Separators == {<<",">>, <<",", " ">>, <<";", " ">>}
CookiePairs == [sep : Separators, name : PairNames, value : PairValues, attr : BOOLEAN]
CookieSeqs ==
    {cs \in SeqsUpTo(CookiePairs, MaxPairs) : cs # <<>> => cs[1].sep = <<",">>}

\* The header text of a sequence of pairs; the separator of a pair stands
\* before it, and the first pair has none.
FormatPair(c) ==
    Concat(<<c.name, <<"=">>, c.value, IF c.attr THEN PathAttr ELSE <<>>>>)
FormatCookies(cs) ==
    LET RECURSIVE fmt(_)
        fmt(i) == IF i > Len(cs) THEN <<>>
                  ELSE (IF i = 1 THEN <<>> ELSE cs[i].sep) \o FormatPair(cs[i]) \o fmt(i + 1)
    IN  fmt(1)

HelperCalls ==
    {[NoCall EXCEPT !.fn = "cols_rows_to_dict", !.payload = p] : p \in Payloads}
    \cup {[NoCall EXCEPT !.fn = "battery_state_from_power", !.power_w = w] : w \in Powers}
    \cup {[NoCall EXCEPT !.fn = "_extract_rtok", !.cookies = cs,
                         !.set_cookie = FormatCookies(cs)] : cs \in CookieSeqs}
    \cup {[NoCall EXCEPT !.fn = "_extract_rtok"]}

HelperInit ==
    /\ cfg = [poll_seconds |-> DefaultPollSeconds, hubitat |-> TRUE]
    /\ stateFile = [exists |-> FALSE, parses |-> FALSE, doc |-> EmptyState]
    /\ state = _load_state(stateFile)
    /\ pc = "refresh"
    /\ cycle = 1
    /\ token = None
    /\ enchwt = None
    /\ data = EmptySnapshot
    /\ pushIdx = 1
    /\ calls = <<>>
    /\ hwvReply = NoReply
    /\ sent = <<>>
    /\ err = NoErr
    /\ refreshed = NotRefreshed
    /\ issued = None
    /\ failures = 0
    /\ sleptFor = 0
    /\ call \in HelperCalls
    /\ returned = NoReturn

daemonVars == <<cfg, state, stateFile, pc, cycle, token, enchwt, data, pushIdx,
                calls, hwvReply, sent, err, refreshed, issued, failures, sleptFor>>

ApplyColsRowsToDict ==
    /\ call.fn = "cols_rows_to_dict" /\ ~returned.done
    /\ returned' = [NoReturn EXCEPT !.done = TRUE, !.out = cols_rows_to_dict(call.payload)]
    /\ UNCHANGED <<call, daemonVars>>

ApplyBatteryStateFromPower ==
    /\ call.fn = "battery_state_from_power" /\ ~returned.done
    /\ returned' = [NoReturn EXCEPT !.done = TRUE,
                                    !.battery_state = battery_state_from_power(call.power_w)]
    /\ UNCHANGED <<call, daemonVars>>

ApplyExtractRtok ==
    /\ call.fn = "_extract_rtok" /\ ~returned.done
    /\ returned' = [NoReturn EXCEPT !.done = TRUE, !.rtok = _extract_rtok(call.set_cookie)]
    /\ UNCHANGED <<call, daemonVars>>

HelperNext ==
    \/ ApplyColsRowsToDict
    \/ ApplyBatteryStateFromPower
    \/ ApplyExtractRtok

HelperSpec == HelperInit /\ [][HelperNext]_vars

-----------------------------------------------------------------------------
(* Vocabulary of the properties *)

HasCall(ep) == \E i \in 1..Len(calls) : calls[i].ep = ep

CallOf(ep) == calls[CHOOSE i \in 1..Len(calls) : calls[i].ep = ep]

\* access_token() has returned in this cycle.
AuthDone == pc = "hwv" \/ HasCall("hwv")

\* refresh() succeeded: status 200 and a body that holds an access token
\* (a reply without a usable token is a failed refresh, as a malformed body).
RefreshSucceeded == refreshed.outcome = "ok" /\ ~Falsy(refreshed.ret)

-----------------------------------------------------------------------------
(* C1 *)

\* C1: in a cycle where a refresh credential is stored and refresh succeeds,
\* access_token returns the token refresh produced and login is never called
\* in that cycle; whenever access_token returns, exactly one of refresh and
\* login produced the bearer credential.
C1_RefreshSuccessExcludesLogin ==
    /\ RefreshSucceeded =>
          /\ CallOf("refresh").auth \in RtokValues
          /\ pc # "login"
          /\ ~HasCall("login")
          /\ AuthDone
          /\ token = refreshed.ret
    /\ AuthDone => (HasCall("login") <=> ~RefreshSucceeded)

C1_Witness ==
    /\ RefreshSucceeded /\ refreshed.ret = TokB /\ token = TokB
    /\ pc = "sleep" /\ err = NoErr
    /\ cycle = 2

-----------------------------------------------------------------------------
(* C2 *)

\* C2: in a cycle where no refresh credential is stored, or where the refresh
\* attempt fails for any reason (status, transport, body), login is attempted
\* in that cycle.
C2_LoginAfterFailedRefresh ==
    (/\ pc = "sleep"
     /\ \/ refreshed.outcome = "skipped"
        \/ HasCall("refresh") /\ ~RefreshSucceeded)
    => HasCall("login")

-----------------------------------------------------------------------------
(* C3 *)

\* C3: whenever access_token raises in a cycle, login was attempted in that
\* cycle and it is login that failed.
C3_AuthFailsOnlyAfterLogin ==
    err.at \in {"refresh", "login"} => (HasCall("login") /\ err.at = "login")

-----------------------------------------------------------------------------
(* C4 *)

\* C4: the stored refresh credential is the one carried by the most recent
\* successful refresh or login reply that carried one; each such reply
\* overwrites it and no other step changes it.
C4_StoredIsLatestIssued ==
    [][/\ issued' # None => (state'.isDict /\ state'.refresh_token = issued')
       /\ state' # state =>
            /\ pc \in {"refresh", "login"}
            /\ Len(calls') = Len(calls) + 1
            /\ calls'[Len(calls')].status = 200
            /\ state'.refresh_token = issued']_vars

C4_Witness ==
    /\ cycle = 2
    /\ HasCall("refresh") /\ HasCall("login")
    /\ CallOf("refresh").auth = RtokX
    /\ issued = RtokY /\ state.refresh_token = RtokY
    /\ stateFile.doc.refresh_token = RtokY

-----------------------------------------------------------------------------
(* C5 *)

\* The daemon is one sequential process whose network calls all have a
\* timeout and whose sleep ends: a step that can be taken is taken.
FairSpec == Spec /\ WF_vars(Next)

\* C5: every error raised in a cycle is caught and logged (the loop is never
\* left), the sleep after a failed cycle is the configured interval, as after
\* a successful one, and the next cycle then starts.
C5_DaemonSurvivesFailure ==
    /\ [][/\ pc' # "exit"
          /\ (err = NoErr /\ err' # NoErr) => (pc' = "sleep" /\ failures' = failures + 1)
          /\ pc = "sleep" =>
               /\ pc' = "refresh" /\ cycle' = cycle + 1
               /\ sleptFor' = cfg.poll_seconds]_vars
    /\ \A n \in 1..(MaxCycles - 1) :
          (cycle = n /\ err # NoErr) ~> (cycle = n + 1 /\ pc = "refresh" /\ err = NoErr)

C5_Witness ==
    /\ cycle = 2 /\ failures = 1
    /\ pc = "push"
    /\ sleptFor = DefaultPollSeconds

-----------------------------------------------------------------------------
(* C6 *)

ValueCmds == {"setBatterySoc", "setBatteryPower", "setBatteryState",
              "setSolarPower", "setConsumptionPower", "setGridPower"}

DirectCmds == ValueCmds \ {"setBatteryState"}

\* The snapshot field a value-command takes its argument from.
SourceField(cmd) ==
    CASE cmd = "setBatterySoc" -> K_SOC
      [] cmd = "setBatteryPower" -> K_BATT
      [] cmd = "setBatteryState" -> K_BATT
      [] cmd = "setSolarPower" -> K_SOLAR
      [] cmd = "setConsumptionPower" -> K_CONS
      [] cmd = "setGridPower" -> K_METER

Absent(key) == key \notin DOMAIN data \/ data[key] = PyNone

Dispatched(cmd) == \E i \in 1..Len(sent) : sent[i].cmd = cmd

PushCompleted == pc = "sleep" /\ err = NoErr

\* C6 as stated: no value-command whose source field is absent is
\* dispatched, the derived setBatteryState included.
C6_AbsentFieldNeverDispatched ==
    \A i \in 1..Len(sent) :
        sent[i].cmd \in ValueCmds => ~Absent(SourceField(sent[i].cmd))

\* C6, amended: no command is dispatched with a null argument, and none of
\* the five commands that take a snapshot field as their argument is
\* dispatched when that field is absent; setBatteryState is dispatched with
\* "unknown" when battery_pwr_w is absent, so a completed push of a snapshot
\* without battery_pwr_w skips setBatteryPower only.
C6_AbsentDirectFieldSkipped ==
    /\ \A i \in 1..Len(sent) :
          /\ sent[i].arg # PyNone
          /\ sent[i].cmd \in DirectCmds =>
                /\ ~Absent(SourceField(sent[i].cmd))
                /\ sent[i].arg = data[SourceField(sent[i].cmd)]
          /\ (sent[i].cmd = "setBatteryState" /\ Absent(K_BATT)) =>
                sent[i].arg = PyStr("unknown")
    /\ (PushCompleted /\ Absent(K_BATT)) =>
          /\ ~Dispatched("setBatteryPower")
          /\ Dispatched("setBatteryState")

C6_Witness ==
    /\ PushCompleted
    /\ Absent(K_BATT)
    /\ \A k \in {K_SOC, K_SOLAR, K_CONS, K_METER} : ~Absent(k)
    /\ Len(sent) = 6
    /\ sent[2] = [cmd |-> "setBatteryState", arg |-> PyStr("unknown"), ok |-> TRUE]

-----------------------------------------------------------------------------
(* C7 *)

DeclaredOrder == <<"setBatterySoc", "setBatteryPower", "setBatteryState",
                   "setSolarPower", "setConsumptionPower", "setGridPower",
                   "setLastTimestamp">>

Position(cmd) == CHOOSE i \in 1..Len(DeclaredOrder) : DeclaredOrder[i] = cmd

\* C7: the commands dispatched by one push are a subsequence of the declared
\* order, each dispatched at most once.
C7_DeclaredOrder ==
    /\ \A i \in 1..Len(sent) : \E k \in 1..Len(DeclaredOrder) : DeclaredOrder[k] = sent[i].cmd
    /\ \A i, j \in 1..Len(sent) :
          i < j => Position(sent[i].cmd) < Position(sent[j].cmd)

C7_Witness ==
    /\ PushCompleted
    /\ Len(sent) = 7
    /\ sent[1].arg = PyInt(50) /\ sent[2].arg = PyInt(0)

-----------------------------------------------------------------------------
(* C8 *)

\* The commands a push of the snapshot dispatches when no call fails.
Expected == SelectSeq(DeclaredOrder, LAMBDA c :
                c = "setLastTimestamp"
                \/ c = "setBatteryState"
                \/ (c \in DirectCmds /\ ~Absent(SourceField(c))))

\* A failed transport call is the last call of its push, the calls before it
\* are the commands due before it, all done, and the cycle has ended as
\* failed.
FailedCallEndsPush ==
    \A k \in 1..Len(sent) :
        ~sent[k].ok =>
            /\ k = Len(sent)
            /\ \A i \in 1..(k - 1) : sent[i].ok
            /\ \A i \in 1..k : sent[i].cmd = Expected[i]
            /\ pc = "sleep" /\ err = [at |-> "push", exc |-> "URLError"]

\* C8: when the transport call of the k-th command fails, the commands before
\* it have been dispatched and stay so, no later command is dispatched in
\* that push, the cycle ends as failed and the next cycle starts.
C8_FailedCallStopsPush ==
    [][/\ FailedCallEndsPush'
       /\ (pc = "push" /\ pc' = "sleep" /\ err' # NoErr) =>
             SubSeq(sent', 1, Len(sent)) = sent
       /\ (pc = "sleep" /\ err.at = "push") =>
             (pc' = "refresh" /\ cycle' = cycle + 1 /\ sent' = <<>>)]_vars

C8_Witness ==
    /\ cycle = 2 /\ failures = 2
    /\ err = [at |-> "push", exc |-> "URLError"]
    /\ Len(sent) = 4 /\ ~sent[4].ok
    /\ sent[4].cmd = "setConsumptionPower"

-----------------------------------------------------------------------------
(* C9 *)

\* The handle of the hardware-version reply of this cycle: the first value
\* of the first row, None when there is none.
RepliedHandle ==
    IF /\ hwvReply.transport = "ok" /\ hwvReply.status = 200 /\ hwvReply.json = "dict"
       /\ hwvReply.payload.has_rows
       /\ Len(hwvReply.payload.rows) > 0
       /\ Len(hwvReply.payload.rows[1]) > 0
    THEN hwvReply.payload.rows[1][1]
    ELSE None

\* C9: the realtime query is issued only after the hardware-version query
\* succeeded with a non-empty handle, and carries that handle; without a
\* handle fetch_snapshot fails and no realtime query is issued.
C9_RealtimeAfterHandle ==
    /\ HasCall("hwm") =>
          /\ Len(calls) >= 2
          /\ calls[Len(calls) - 1].ep = "hwv" /\ calls[Len(calls)].ep = "hwm"
          /\ calls[Len(calls) - 1].status = 200
          /\ RepliedHandle # None /\ RepliedHandle # <<>>
          /\ CallOf("hwm").arg = RepliedHandle
    /\ (HasCall("hwv") /\ Falsy(RepliedHandle)) =>
          /\ pc = "sleep" /\ err.at = "hwv"
          /\ ~HasCall("hwm")

C9_Witness ==
    /\ HasCall("hwm")
    /\ Len(hwvReply.payload.rows) = 2
    /\ CallOf("hwm").arg = H2

-----------------------------------------------------------------------------
(* C10 *)

\* C10: in a cycle where authentication fails, a telemetry query is answered
\* with a non-success status or the handle is missing, no hub command is
\* dispatched; a hub command is dispatched only after access_token, both
\* queries and the normalization of the same cycle.
C10_NoPartialPush ==
    /\ (\/ err.at \in {"refresh", "login"}
        \/ \E i \in 1..Len(calls) : calls[i].ep \in {"hwv", "hwm"} /\ calls[i].status # 200
        \/ HasCall("hwv") /\ Falsy(RepliedHandle))
       => sent = <<>>
    /\ sent # <<>> =>
          /\ Len(calls) >= 3
          /\ calls[Len(calls) - 2].ep \in {"refresh", "login"}
          /\ calls[Len(calls) - 1].ep = "hwv" /\ calls[Len(calls)].ep = "hwm"
          /\ \A i \in (Len(calls) - 2)..Len(calls) :
                calls[i].transport = "ok" /\ calls[i].status = 200
          /\ err.at \in {"none", "push"}

C10_Witness ==
    /\ cycle = 2
    /\ pc = "sleep" /\ err = [at |-> "hwm", exc |-> "RuntimeError"]
    /\ CallOf("hwm").status = 500
    /\ sent = <<>>

-----------------------------------------------------------------------------
(* C11 *)

\* The state file holds no stored credential: it is missing, it is not JSON,
\* or it is JSON without a refresh_token.
NoStoredCredential(file) ==
    \/ ~file.exists
    \/ ~file.parses
    \/ ~file.doc.isDict
    \/ Falsy(file.doc.refresh_token)

\* C11: whatever the condition of a state file without a stored credential,
\* the client starts with an empty SessionState, and the first step of its
\* first cycle skips refresh and goes on to login without failing.  (Until
\* the first network call of the first cycle the file and SessionState are
\* those of startup.)
C11_LoadDegradesToEmpty ==
    (cycle = 1 /\ calls = <<>> /\ pc # "refresh" /\ NoStoredCredential(stateFile)) =>
        /\ state.isDict /\ Falsy(state.refresh_token)
        /\ err = NoErr
        /\ pc = "login"
        /\ refreshed.outcome = "skipped"

-----------------------------------------------------------------------------
(* C12 *)

Returned(fn) == call.fn = fn /\ returned.done

\* cols or rows is empty or absent in the payload.
NoTable(payload) ==
    \/ ~payload.has_cols \/ payload.cols = <<>>
    \/ ~payload.has_rows \/ payload.rows = <<>>

\* C12: cols_rows_to_dict returns the empty mapping when cols or rows is
\* empty or absent; otherwise it maps the id of each column i to the i-th
\* value of the first row, and to no value when that row has no i-th value;
\* rows after the first play no part.
C12_FirstRowByColumnId ==
    Returned("cols_rows_to_dict") =>
        LET payload == call.payload
            out == returned.out
        IN  IF NoTable(payload) THEN DOMAIN out = {}
            ELSE \A i \in 1..Len(payload.cols) :
                    payload.cols[i].has_id =>
                        /\ payload.cols[i].id \in DOMAIN out
                        /\ out[payload.cols[i].id] =
                              IF i <= Len(payload.rows[1]) THEN payload.rows[1][i] ELSE PyNone

\* cols a, b and rows [[1, 2], ...] give {a: 1, b: 2}.
C12_Witness ==
    /\ Returned("cols_rows_to_dict")
    /\ call.payload.has_cols /\ call.payload.cols = <<Col("a"), Col("b")>>
    /\ call.payload.has_rows /\ Len(call.payload.rows) = 2
    /\ call.payload.rows[1] = <<PyInt(1), PyInt(2)>>
    /\ returned.out = [k \in {"a", "b"} |-> IF k = "a" THEN PyInt(1) ELSE PyInt(2)]

-----------------------------------------------------------------------------
(* C13 *)

\* C13: the battery state derived from a power p is charging exactly when
\* p > 0, discharging exactly when p < 0, idle exactly when p = 0, and
\* unknown exactly when the power is absent.
C13_StateBySignOfPower ==
    Returned("battery_state_from_power") =>
        LET p == call.power_w
            st == returned.battery_state
        IN  /\ st \in {"charging", "discharging", "idle", "unknown"}
            /\ st = "unknown" <=> p = PyNone
            /\ st = "charging" <=> (p # PyNone /\ p.n > 0)
            /\ st = "discharging" <=> (p # PyNone /\ p.n < 0)
            /\ st = "idle" <=> (p # PyNone /\ p.n = 0)

\* One watt into the battery is charging.
C13_Witness ==
    /\ Returned("battery_state_from_power")
    /\ call.power_w = PyInt(1)
    /\ returned.battery_state = "charging"

-----------------------------------------------------------------------------
(* C14 *)

IsRtok(c) == c.name = <<"r", "t", "o", "k">>

\* The value of the first rtok pair of a sequence of cookie pairs, None when
\* there is none.
FirstRtokValue(cs) ==
    LET hits == {i \in 1..Len(cs) : IsRtok(cs[i])}
    IN  IF hits = {} THEN None
        ELSE cs[CHOOSE i \in hits : \A j \in hits : i <= j].value

-----------------------------------------------------------------------------
(* C15 *)

CallsTo(ep) == Cardinality({i \in 1..Len(calls) : calls[i].ep = ep})

Dispatches(cmd) == Cardinality({i \in 1..Len(sent) : sent[i].cmd = cmd})

AtMostOnceEach ==
    /\ \A ep \in {"refresh", "login", "hwv", "hwm"} : CallsTo(ep) <= 1
    /\ \A i \in 1..Len(calls) : calls[i].ep \in {"refresh", "login", "hwv", "hwm"}
    /\ \A cmd \in ValueCmds \cup {"setLastTimestamp"} : Dispatches(cmd) <= 1

\* C15: within one cycle the refresh endpoint and the login endpoint are each
\* called at most once, the query endpoint at most twice (one hardware-
\* version query, one realtime query) and each hub command is dispatched at
\* most once; once a call of the cycle has failed, no further call is made
\* before the next cycle.
C15_NoRetryWithinCycle ==
    /\ [](AtMostOnceEach)
    /\ [][(err # NoErr /\ cycle' = cycle) => (calls' = calls /\ sent' = sent)]_vars

\* A second cycle that made all four calls and failed on a hub command.
C15_Witness ==
    /\ cycle = 2 /\ pc = "sleep" /\ err.at = "push"
    /\ Len(calls) = 4 /\ Len(sent) >= 2
    /\ failures = 2

-----------------------------------------------------------------------------
(* C16 *)

IsAuth(i) == calls[i].ep \in {"refresh", "login"}

IsQuery(i) == calls[i].ep \in {"hwv", "hwm"}

\* The latest call of the cycle to an auth endpoint before the i-th call.
LastAuthBefore(i) ==
    CHOOSE k \in 1..(i - 1) : IsAuth(k) /\ \A j \in 1..(i - 1) : IsAuth(j) => j <= k

\* C16: each query of a cycle carries the bearer credential that the auth
\* call of that same cycle returned; no bearer is held when a cycle starts,
\* so every cycle acquires its own; and no bearer value is ever stored in
\* SessionState or in the persisted document.
C16_BearerLivesOneCycle ==
    /\ \A i \in 1..Len(calls) :
          IsQuery(i) =>
              /\ \E k \in 1..(i - 1) : IsAuth(k)
              /\ calls[i].auth = calls[LastAuthBefore(i)].bearer
    /\ (\A i \in 1..Len(calls) : ~IsQuery(i) /\ calls[i].bearer = None) => token = None
    /\ state.refresh_token \notin Tokens
    /\ stateFile.doc.refresh_token \notin Tokens

\* A second cycle whose refresh returned bearer b and whose two queries
\* carried it, with a credential in SessionState.
C16_Witness ==
    /\ cycle = 2
    /\ HasCall("refresh") /\ ~HasCall("login")
    /\ HasCall("hwv") /\ CallOf("hwv").auth = TokB
    /\ HasCall("hwm") /\ CallOf("hwm").auth = TokB
    /\ state.refresh_token = RtokY

-----------------------------------------------------------------------------
(* C17 *)

\* The auth calls of the cycle whose reply issued a rotating credential.
Rotations == {i \in 1..Len(calls) : calls[i].rtok # None}

LatestRotation == CHOOSE i \in Rotations : \A j \in Rotations : j <= i

\* The persisted document is readable and holds the credential v.
Persisted(v) ==
    /\ stateFile.exists /\ stateFile.parses
    /\ stateFile.doc.isDict /\ stateFile.doc.refresh_token = v

\* C17: when an auth reply of the cycle issued a rotating credential, then
\* from the return of access_token() to the end of the cycle, whatever fails
\* later, SessionState and the persisted document hold that credential; no
\* step after the auth steps touches either of them.
C17_RotationPersistedBeforeQueries ==
    /\ []((AuthDone /\ Rotations # {}) =>
            /\ state.isDict
            /\ state.refresh_token = calls[LatestRotation].rtok
            /\ Persisted(calls[LatestRotation].rtok))
    /\ [][pc \notin {"refresh", "login"} => (state' = state /\ stateFile' = stateFile)]_vars

\* The refresh of the cycle rotated the credential to Y= and the realtime
\* query then failed.
C17_Witness ==
    /\ err.at = "hwm"
    /\ HasCall("refresh") /\ CallOf("refresh").auth = RtokX
    /\ CallOf("refresh").rtok = RtokY
    /\ state.refresh_token = RtokY /\ Persisted(RtokY)

-----------------------------------------------------------------------------
(* C18 *)

\* The snapshot carries a timestamp (a ts that is not None or empty).
HasTimestamp == "ts" \in DOMAIN data /\ ~PyFalsy(data["ts"])

\* C18: a push that completes without a failed hub call dispatches
\* setLastTimestamp exactly once, as its last command, with the timestamp of
\* the snapshot when it has one and the wall clock otherwise; a cycle with an
\* empty snapshot still pushes (the battery state and the timestamp).
C18_TimestampAlwaysLast ==
    PushCompleted =>
        /\ sent # <<>>
        /\ sent[Len(sent)].cmd = "setLastTimestamp"
        /\ Dispatches("setLastTimestamp") = 1
        /\ sent[Len(sent)].arg = IF HasTimestamp THEN data["ts"] ELSE PyStr(WallClock)
        /\ data = EmptySnapshot =>
              sent = <<[cmd |-> "setBatteryState", arg |-> PyStr("unknown"), ok |-> TRUE],
                       [cmd |-> "setLastTimestamp", arg |-> PyStr(WallClock), ok |-> TRUE]>>

\* A completed push of an empty snapshot.
C18_Witness ==
    /\ PushCompleted
    /\ HasCall("hwm") /\ data = EmptySnapshot
    /\ Len(sent) = 2 /\ sent[2].arg = PyStr(WallClock)

-----------------------------------------------------------------------------
(* C19 *)

\* The refresh credential a state document holds, None when it holds none.
CredentialOf(doc) == IF doc.isDict THEN doc.refresh_token ELSE None

FileCredential ==
    IF stateFile.exists /\ stateFile.parses THEN CredentialOf(stateFile.doc) ELSE None

InSync == FileCredential = CredentialOf(state)

\* A write of the state document fails in this step.
WriteFails == err'.exc = "OSError" /\ err.exc # "OSError"

\* C19: the credential of the persisted document equals that of SessionState
\* after the startup load, and every step in which no write of the document
\* fails keeps them equal: whenever the step overwrites SessionState it has
\* written the whole state before it ends.  So they are equal at every cycle
\* boundary as long as no write has failed.
C19_FileFollowsMemory ==
    /\ InSync
    /\ [][~WriteFails =>
            /\ InSync => InSync'
            /\ state' # state =>
                  stateFile' = [exists |-> TRUE, parses |-> TRUE, doc |-> state']]_vars

\* The start of a second cycle after the first rotated the credential to Y=.
C19_Witness ==
    /\ cycle = 2 /\ pc = "refresh" /\ calls = <<>>
    /\ state.refresh_token = RtokY
    /\ FileCredential = RtokY

-----------------------------------------------------------------------------
(* C20 *)

\* SessionState holds a refresh credential.
HoldsCredential == state.isDict /\ ~Falsy(state.refresh_token)

\* C20: an auth step whose reply issues no rotating credential (a status
\* other than 200, a transport failure, a body that is not the expected
\* JSON, or a success without the cookie) leaves SessionState and the
\* persisted document as they were, and so does the step to the next cycle;
\* and the first step of a cycle that holds a credential presents that
\* credential to the refresh endpoint, before any login.
C20_FailedAuthKeepsCredential ==
    [][/\ (pc \in {"refresh", "login"} /\ Len(calls') = Len(calls) + 1
              /\ calls'[Len(calls')].rtok = None)
          => (state' = state /\ stateFile' = stateFile)
       /\ cycle' # cycle
          => (state' = state /\ stateFile' = stateFile /\ pc' = "refresh" /\ calls' = <<>>)
       /\ (pc = "refresh" /\ HoldsCredential)
          => /\ calls = <<>>
             /\ Len(calls') = 1
             /\ calls'[1].ep = "refresh"
             /\ calls'[1].auth = state.refresh_token]_vars

\* The second cycle presented X again after refresh and login were both
\* answered 401 in the first cycle, was answered 401 twice again, and X is
\* still stored.
C20_Witness ==
    /\ cycle = 2 /\ failures = 2 /\ issued = None
    /\ HasCall("refresh") /\ CallOf("refresh").status = 401 /\ CallOf("refresh").auth = RtokX
    /\ HasCall("login") /\ CallOf("login").status = 401
    /\ state.refresh_token = RtokX
    /\ FileCredential = RtokX

====
